---- MODULE Spec2Model ----
(***************************************************************************)
(* Model of the journal web application: the router (mux) of main.go, its  *)
(* controllers (Index, New, View), slugify, the journal table, and the     *)
(* Edit controller exercised by TestEdit_Run.                              *)
(*                                                                         *)
(* Strings are sequences of one-character strings, so that comparison,     *)
(* regular-expression search, replacement and lower-casing are computed    *)
(* character by character as the Go code computes them.                    *)
(***************************************************************************)
EXTENDS Integers, Sequences, FiniteSets, TLC

(***************************************************************************)
(* Characters.  The alphabet is finite; \w is [0-9A-Za-z_] cut to it.      *)
(***************************************************************************)
Lower == {"a", "e", "n", "w"}
Upper == {"A", "E", "N", "W"}
Digits == {"1"}
Punct == {"/", "\\", "(", ")", "[", "]", "+", "-", " ", "!"}
WordChars == Lower \cup Upper \cup Digits \cup {"_"}
Alphabet == WordChars \cup Punct
NonWordChars == Alphabet \ WordChars

\* strings.ToLower on one character
ToLowerChar(c) ==
  CASE c = "A" -> "a"
    [] c = "E" -> "e"
    [] c = "N" -> "n"
    [] c = "W" -> "w"
    [] OTHER -> c

\* strings.ToLower
ToLower(s) == [i \in 1..Len(s) |-> ToLowerChar(s[i])]

(***************************************************************************)
(* regexp: the part of the RE2 syntax the program uses (literals, escapes, *)
(* classes without ranges or negation, groups, the + repetition).          *)
(* A compiled expression is a sequence of nodes; a node is a character set *)
(* or a group, possibly repeated.                                          *)
(***************************************************************************)
SetNode(cs) == [t |-> "set", cs |-> cs, body |-> <<>>, plus |-> FALSE]
GrpNode(b) == [t |-> "grp", cs |-> {}, body |-> b, plus |-> FALSE]
ParseErr == [ok |-> FALSE, nodes |-> <<>>, cs |-> {}, next |-> 0]

\* the set an escape \c denotes; {} stands for an invalid escape
EscapeSet(c) ==
  CASE c = "w" -> WordChars
    [] c = "W" -> NonWordChars
    [] c \in Punct -> {c}
    [] OTHER -> {}

RECURSIVE ParseClass(_, _, _)
\* the items of a class [...] from position i, up to the closing bracket
ParseClass(t, i, acc) ==
  IF i > Len(t) THEN ParseErr                       \* missing closing ]
  ELSE IF t[i] = "]" THEN [ok |-> TRUE, nodes |-> <<>>, cs |-> acc, next |-> i + 1]
  ELSE IF t[i] = "\\" THEN
    IF i + 1 > Len(t) \/ EscapeSet(t[i + 1]) = {} THEN ParseErr
    ELSE ParseClass(t, i + 2, acc \cup EscapeSet(t[i + 1]))
  ELSE ParseClass(t, i + 1, acc \cup {t[i]})

RECURSIVE ParseSeq(_, _, _, _)
\* a concatenation from position i; depth counts the open groups
ParseSeq(t, i, depth, acc) ==
  IF i > Len(t) THEN
    IF depth = 0 THEN [ok |-> TRUE, nodes |-> acc, cs |-> {}, next |-> i]
    ELSE ParseErr                                   \* missing closing )
  ELSE IF t[i] = ")" THEN
    IF depth > 0 THEN [ok |-> TRUE, nodes |-> acc, cs |-> {}, next |-> i + 1]
    ELSE ParseErr                                   \* unexpected )
  ELSE IF t[i] = "+" THEN
    IF acc = <<>> THEN ParseErr                     \* missing argument to repetition
    ELSE IF acc[Len(acc)].plus THEN ParseErr        \* invalid nested repetition
    ELSE ParseSeq(t, i + 1, depth,
                  [acc EXCEPT ![Len(acc)] = [@ EXCEPT !.plus = TRUE]])
  ELSE IF t[i] = "(" THEN
    LET g == ParseSeq(t, i + 1, depth + 1, <<>>)
    IN IF g.ok THEN ParseSeq(t, g.next, depth, Append(acc, GrpNode(g.nodes)))
       ELSE ParseErr
  ELSE IF t[i] = "[" THEN
    LET k == ParseClass(t, i + 1, {})
    IN IF k.ok THEN ParseSeq(t, k.next, depth, Append(acc, SetNode(k.cs)))
       ELSE ParseErr
  ELSE IF t[i] = "\\" THEN
    IF i + 1 > Len(t) \/ EscapeSet(t[i + 1]) = {} THEN ParseErr
    ELSE ParseSeq(t, i + 2, depth, Append(acc, SetNode(EscapeSet(t[i + 1]))))
  ELSE ParseSeq(t, i + 1, depth, Append(acc, SetNode({t[i]})))

\* regexp.Compile: ok is FALSE for a malformed expression
Compile(t) == ParseSeq(t, 1, 0, <<>>)

RECURSIVE Ends(_, _, _)
RECURSIVE EndsVia(_, _, _)
RECURSIVE EndsPlus(_, _, _)
\* the positions where a match of node n starting at i may end, preferred first
EndsAtom(n, s, i) ==
  IF n.t = "set" THEN (IF i <= Len(s) /\ s[i] \in n.cs THEN <<i + 1>> ELSE <<>>)
  ELSE Ends(n.body, s, i)

RECURSIVE EndsPlusVia(_, _, _, _)
EndsPlusVia(es, n, s, i) ==
  IF es = <<>> THEN <<>>
  ELSE (IF Head(es) > i THEN EndsPlus(n, s, Head(es)) ELSE <<>>)
       \o <<Head(es)>> \o EndsPlusVia(Tail(es), n, s, i)

\* greedy repetition: one more round is preferred to stopping
EndsPlus(n, s, i) == EndsPlusVia(EndsAtom(n, s, i), n, s, i)

EndsVia(es, rest, s) ==
  IF es = <<>> THEN <<>>
  ELSE Ends(rest, s, Head(es)) \o EndsVia(Tail(es), rest, s)

\* the positions where a match of the node sequence starting at i may end
Ends(nodes, s, i) ==
  IF nodes = <<>> THEN <<i>>
  ELSE EndsVia(IF Head(nodes).plus THEN EndsPlus(Head(nodes), s, i)
               ELSE EndsAtom(Head(nodes), s, i),
               Tail(nodes), s)

\* the leftmost match starting at or after pos (doExecute): [b, e) or none
FindFrom(re, s, pos) ==
  LET starts == {b \in pos..(Len(s) + 1) : Ends(re, s, b) # <<>>}
  IN IF starts = {} THEN [found |-> FALSE, b |-> 0, e |-> 0]
     ELSE LET b == CHOOSE x \in starts : \A y \in starts : x <= y
          IN [found |-> TRUE, b |-> b, e |-> Head(Ends(re, s, b))]

\* regexp.MatchString(pattern, s): (matched, err)
MatchString(pattern, s) ==
  LET c == Compile(pattern)
  IN [matched |-> c.ok /\ FindFrom(c.nodes, s, 1).found, err |-> ~c.ok]

RECURSIVE AllMatches(_, _, _, _)
\* Regexp.allMatches: successive non-overlapping matches, left to right
AllMatches(re, s, pos, prevEnd) ==
  IF pos > Len(s) + 1 THEN <<>>
  ELSE LET m == FindFrom(re, s, pos)
       IN IF ~m.found THEN <<>>
          ELSE LET empty == m.e = pos
                   accept == ~(empty /\ m.b = prevEnd)
                   rest == AllMatches(re, s, IF empty THEN pos + 1 ELSE m.e, m.e)
               IN IF accept THEN <<SubSeq(s, m.b, m.e - 1)>> \o rest ELSE rest

\* Regexp.FindAllString(s, -1)
FindAllString(re, s) == AllMatches(re, s, 1, 0)

RECURSIVE ReplaceFrom(_, _, _, _, _)
\* Regexp.replaceAll: copy the unmatched text, put repl for each match
ReplaceFrom(re, src, repl, searchPos, lastEnd) ==
  IF searchPos > Len(src) + 1 THEN SubSeq(src, lastEnd, Len(src))
  ELSE LET m == FindFrom(re, src, searchPos)
       IN IF ~m.found THEN SubSeq(src, lastEnd, Len(src))
          ELSE LET put == IF m.e > lastEnd \/ m.b = 1 THEN repl ELSE <<>>
                   npos == IF m.e > searchPos THEN m.e ELSE searchPos + 1
               IN SubSeq(src, lastEnd, m.b - 1) \o put
                  \o ReplaceFrom(re, src, repl, npos, m.e)

\* Regexp.ReplaceAllString(src, repl)
ReplaceAllString(re, src, repl) == ReplaceFrom(re, src, repl, 1, 1)

\* the expression slugify compiles: [\W+]
SlugPattern == <<"[", "\\", "W", "+", "]">>

\* slugify: every match of [\W+] becomes "-", then the string is lower-cased
slugify(s) == ToLower(ReplaceAllString(Compile(SlugPattern).nodes, s, <<"-">>))

(***************************************************************************)
(* Bounds and input sets.                                                  *)
(***************************************************************************)
\* the journal table holds at most this many rows in the model
MaxEntries == 2

Nil == <<>>

\* the expression of main's View route: \/([\w\-]+)
ViewPattern == <<"\\", "/", "(", "[", "\\", "w", "\\", "-", "]", "+", ")">>
RootPath == <<"/">>
NewPath == <<"/", "n", "e", "w">>
\* an expression regexp.Compile rejects (missing closing parenthesis)
BadPattern == <<"/", "(", "a">>
\* a well-formed expression, /(a), that its own text does not satisfy
GroupPattern == <<"/", "(", "a", ")">>

Titles == {<<>>, <<"N", " ", "w">>, <<"!", "!">>, <<"N", "e", "w">>}

Forms ==
  { [title |-> <<>>, date |-> <<>>, content |-> <<>>],
    [title |-> <<"N", " ", "w">>, date |-> <<"1">>, content |-> <<"a">>],
    [title |-> <<"!", "!">>, date |-> <<>>, content |-> <<>>] }

\* the forms again, and one whose title is the word of the /new route
MainForms ==
  Forms \cup {[title |-> <<"N", "e", "w">>, date |-> <<"1">>, content |-> <<>>]}

Methods == {"GET", "POST", ""}

Paths ==
  { RootPath, NewPath, ViewPattern, GroupPattern,
    <<"/", "n", "-", "w">>, <<"/", "a", "/", "e">>, <<"/", "!">> }

\* how the database answers a statement of the request
DbModes == {"ok", "prepareErr", "execErr"}

(***************************************************************************)
(* Controllers.  main registers one instance per route; an instance lives  *)
(* as long as the process and serves every request of its route.           *)
(***************************************************************************)
Controllers == {"index", "newGet", "newPost", "view"}

Kind(c) ==
  CASE c = "index" -> "Index"
    [] c \in {"newGet", "newPost"} -> "New"
    [] c = "view" -> "View"

\* route{t, u, a, c}
Route(t, u, a, c) == [method |-> t, uri |-> u, matchable |-> a, controller |-> c]

\* mutant: the POST route is registered for the entry pattern, not for /new
MainRoutesPostAny ==
  << Route("GET", RootPath, FALSE, "index"),
     Route("GET", NewPath, FALSE, "newGet"),
     Route("POST", ViewPattern, TRUE, "newPost"),
     Route("GET", ViewPattern, TRUE, "view") >>

\* the four routes main registers, in its order
MainRoutes ==
  << Route("GET", RootPath, FALSE, "index"),
     Route("GET", NewPath, FALSE, "newGet"),
     Route("POST", NewPath, FALSE, "newPost"),
     Route("GET", ViewPattern, TRUE, "view") >>

Reverse(s) == [i \in 1..Len(s) |-> s[Len(s) + 1 - i]]

\* the route lists a startup may register: main's, main's in other
\* registration orders, and one with a malformed pattern route and a
\* pattern route of another expression
Scripts ==
  { MainRoutes,
    Reverse(MainRoutes),
    <<MainRoutes[4], MainRoutes[1], MainRoutes[3], MainRoutes[2]>>,
    << Route("GET", BadPattern, TRUE, "newGet"),
       Route("GET", RootPath, FALSE, "index"),
       Route("GET", GroupPattern, TRUE, "view") >> }

\* the patterns of the registered routes
URIs == UNION {{rs[i].uri : i \in DOMAIN rs} : rs \in Scripts}

\* regexp.MatchString and Regexp.FindAllString on the model's patterns and
\* paths, and slugify on its titles, each computed once
MatchMemo == [u \in URIs |-> [p \in Paths |-> MatchString(u, p)]]
FindAllMemo ==
  [u \in URIs |-> [p \in Paths |->
     IF Compile(u).ok THEN FindAllString(Compile(u).nodes, p) ELSE Nil]]
SlugMemo == [t \in Titles |-> slugify(t)]

(***************************************************************************)
(* Responses and the record of a dispatch.                                 *)
(***************************************************************************)
\* nothing written yet
NoResp == [status |-> 0, location |-> Nil, body |-> Nil, page |-> "", data |-> Nil]

\* a template rendered to the response with its data; the first Write
\* makes the status 200
Render(page, data) == [NoResp EXCEPT !.status = 200, !.page = page, !.data = data]

\* http.Redirect(w, r, url, code)
Redirect(url, code) == [NoResp EXCEPT !.status = code, !.location = url]

\* the text http.NotFound writes: "404 page not found\n"
NotFoundBody ==
  <<"4", "0", "4", " ", "p", "a", "g", "e", " ", "n", "o", "t", " ",
    "f", "o", "u", "n", "d", "\n">>

\* mutant: the text written without the 404 status
HttpNotFoundNoStatus == [NoResp EXCEPT !.status = 200, !.body = NotFoundBody]

\* http.NotFound(w, r)
HttpNotFound == [NoResp EXCEPT !.status = 404, !.body = NotFoundBody]

\* strings.Contains
Contains(s, sub) ==
  \E i \in 0..(Len(s) - Len(sub)) : SubSeq(s, i + 1, i + Len(sub)) = sub

\* what a controller's Run leaves: the response, the table, the statements
\* executed, and how Run ended (ok, panic, or fatal: the process exits)
RunResult(resp, st, execs, outcome) ==
  [resp |-> resp, store |-> st, execs |-> execs, outcome |-> outcome]

\* IndexController.Run
IndexRun(st) == RunResult(Render("index", Nil), st, <<>>, "ok")

\* mutant: the insert reuses the key of the newest row and replaces it
InsertRowReplace(st, slug, title, date, content) ==
  IF st = <<>>
  THEN <<[id |-> 1, slug |-> slug, title |-> title, date |-> date,
          content |-> content]>>
  ELSE [st EXCEPT ![Len(st)] = [id |-> Len(st), slug |-> slug, title |-> title,
                               date |-> date, content |-> content]]

\* the row INSERT INTO journal stores; id is the table's AUTOINCREMENT key
InsertRow(st, slug, title, date, content) ==
  Append(st, [id |-> Len(st) + 1, slug |-> slug, title |-> title,
              date |-> date, content |-> content])

\* NewController.Run
NewRun(method, form, st, db) ==
  IF method = "GET" THEN RunResult(Render("new", Nil), st, <<>>, "ok")
  ELSE IF db = "prepareErr" THEN RunResult(NoResp, st, <<>>, "fatal")
  ELSE IF db = "execErr" THEN RunResult(NoResp, st, <<>>, "panic")
  ELSE RunResult(Redirect(RootPath, 302),
                 InsertRow(st, SlugMemo[form.title], form.title, form.date,
                           form.content),
                 <<"insert">>, "ok")

\* ViewController.Run: renders ViewData{Params: c.params}
ViewRun(ps, st) == RunResult(Render("view", ps), st, <<>>, "ok")

\* route.controller.Run(w, r) on controller c holding params ps
ControllerRun(c, method, form, ps, st, db) ==
  CASE Kind(c) = "Index" -> IndexRun(st)
    [] Kind(c) = "New" -> NewRun(method, form, st, db)
    [] Kind(c) = "View" -> ViewRun(ps, st)

(***************************************************************************)
(* The router.                                                             *)
(***************************************************************************)
\* mutant: the empty method is not taken for GET
MethodExact(m, routeMethod) == m = routeMethod

\* r.Method == route.method || (r.Method == "" && route.method == "GET")
MethodCompatible(m, routeMethod) ==
  m = routeMethod \/ (m = "" /\ routeMethod = "GET")

\* mutant: the loop keeps going after a match, so the last match wins
ScanRoutesLast(rs, i, method, path) ==
  LET lit(k) == path = rs[k].uri /\ (method = rs[k].method
                                     \/ (method = "" /\ rs[k].method = "GET"))
      rex(k) == /\ rs[k].matchable
                /\ MatchMemo[rs[k].uri][path].matched
                /\ (method = rs[k].method \/ (method = "" /\ rs[k].method = "GET"))
      hits == {k \in i..Len(rs) : lit(k) \/ rex(k)}
  IN IF hits = {} THEN [idx |-> 0, regex |-> FALSE]
     ELSE LET k == CHOOSE x \in hits : \A y \in hits : y <= x
          IN [idx |-> k, regex |-> ~lit(k)]

RECURSIVE ScanRoutes(_, _, _, _)
\* the loop of ServeHTTP from the i-th route on: the index of the route it
\* dispatches to (0: none) and whether the regex branch chose it
ScanRoutes(rs, i, method, path) ==
  IF i > Len(rs) THEN [idx |-> 0, regex |-> FALSE]
  ELSE IF path = rs[i].uri /\ MethodCompatible(method, rs[i].method)
    THEN [idx |-> i, regex |-> FALSE]
  ELSE IF /\ rs[i].matchable
          /\ MatchMemo[rs[i].uri][path].matched
          /\ MethodCompatible(method, rs[i].method)
    THEN [idx |-> i, regex |-> TRUE]
  ELSE ScanRoutes(rs, i + 1, method, path)

\* the log lines of ServeHTTP
LogRequest(method, path) == [line |-> "request", method |-> method, path |-> path]
LogNotFound(method, path) == [line |-> "404 Not Found", method |-> method, path |-> path]

VARIABLES
  script,     \* the routes the startup registers, in order
  routes,     \* m.routes
  listening,  \* http.ListenAndServe has been called
  alive,      \* the process has not exited
  params,     \* Controller.params of each controller instance
  store,      \* the rows of the journal table
  conn,       \* the requests being served, one per connection
  edit,       \* the Edit controller: its Error flag
  last        \* what the most recently completed dispatch did

vars == <<script, routes, listening, alive, params, store, conn, edit, last>>

Workers == {1, 2}
Idle == [pc |-> "idle", method |-> "", path |-> Nil, idx |-> 0, regex |-> FALSE,
         setp |-> <<>>]

\* no form field read
NoForm == [title |-> Nil, date |-> Nil, content |-> Nil]

\* query is the request's URL query; form holds the form fields a handler
\* read, as it read them
NoDispatch ==
  [kind |-> "none", method |-> "", path |-> Nil, query |-> Nil, idx |-> 0,
   regex |-> FALSE, ran |-> <<>>, setp |-> <<>>, resp |-> NoResp, logs |-> <<>>,
   execs |-> <<>>, form |-> NoForm, outcome |-> "ok"]

\* the first half of ServeHTTP: the log line, the scan of the routes and,
\* for a route chosen by its regex, SetParams on its controller
Matched(method, path) ==
  LET s == ScanRoutes(routes, 1, method, path)
      c == routes[s.idx].controller
  IN [pc |-> "run", method |-> method, path |-> path, idx |-> s.idx,
      regex |-> s.regex,
      setp |-> IF s.regex
               THEN <<[c |-> c,
                       p |-> FindAllMemo[routes[s.idx].uri][path]]>>
               ELSE <<>>]

\* Controller.SetParams for the calls of one dispatch
SetParams(ps, setp) ==
  IF setp = <<>> THEN ps ELSE [ps EXCEPT ![setp[1].c] = setp[1].p]

\* the second half of ServeHTTP: Run on the chosen controller, or the
\* not-found log line and http.NotFound
Completed(cn, form, ps, st, db) ==
  IF cn.idx = 0
  THEN [kind |-> "mux", method |-> cn.method, path |-> cn.path, query |-> Nil,
        form |-> NoForm, idx |-> 0, regex |-> FALSE, ran |-> <<>>, setp |-> cn.setp, resp |-> HttpNotFound,
        logs |-> <<LogRequest(cn.method, cn.path), LogNotFound(cn.method, cn.path)>>,
        execs |-> <<>>, outcome |-> "ok", store |-> st]
  ELSE LET c == routes[cn.idx].controller
           out == ControllerRun(c, cn.method, form, ps[c], st, db)
       IN [kind |-> "mux", method |-> cn.method, path |-> cn.path, query |-> Nil,
           form |-> IF Kind(c) = "new" /\ cn.method # "GET" /\ out.outcome # "fatal"
                    THEN form ELSE NoForm,
           idx |-> cn.idx,
           regex |-> cn.regex, ran |-> <<c>>, setp |-> cn.setp, resp |-> out.resp,
           logs |-> <<LogRequest(cn.method, cn.path)>>,
           execs |-> out.execs, outcome |-> out.outcome, store |-> out.store]

\* the record of a dispatch without the table it left
Record(d) == [f \in DOMAIN NoDispatch |-> d[f]]

Init ==
  /\ script \in Scripts
  /\ routes = <<>>
  /\ listening = FALSE
  /\ alive = TRUE
  /\ params = [c \in Controllers |-> Nil]
  /\ store = <<>>
  /\ conn = [w \in Workers |-> Idle]
  /\ edit = [Error |-> FALSE]
  /\ last = NoDispatch

\* mutant: add puts the new route in front of the earlier ones
AddFront ==
  /\ ~listening
  /\ Len(routes) < Len(script)
  /\ LET r == script[Len(routes) + 1]
     IN routes' = <<Route(r.method, r.uri, r.matchable, r.controller)>> \o routes
  /\ UNCHANGED <<script, listening, alive, params, store, conn, edit, last>>

\* mux.add: main registers its next route
Add ==
  /\ ~listening
  /\ Len(routes) < Len(script)
  /\ LET r == script[Len(routes) + 1]
     IN routes' = Append(routes, Route(r.method, r.uri, r.matchable, r.controller))
  /\ UNCHANGED <<script, listening, alive, params, store, conn, edit, last>>

\* http.ListenAndServe, after the last add
Listen ==
  /\ ~listening
  /\ Len(routes) = Len(script)
  /\ listening' = TRUE
  /\ UNCHANGED <<script, routes, alive, params, store, conn, edit, last>>

\* mux.ServeHTTP for one request, served alone from start to end
ServeHTTP(method, path, form, db) ==
  /\ listening /\ alive
  /\ \A w \in Workers : conn[w].pc = "idle"
  /\ \E cn \in {Matched(method, path)} :
       \E ps \in {SetParams(params, cn.setp)} :
         \E d \in {Completed(cn, form, ps, store, db)} :
           /\ Len(d.store) <= MaxEntries
           /\ params' = ps
           /\ store' = d.store
           /\ alive' = (d.outcome # "fatal")
           /\ last' = Record(d)
  /\ UNCHANGED <<script, routes, listening, conn, edit>>

Serve ==
  \E method \in Methods, path \in Paths, form \in Forms, db \in DbModes :
    ServeHTTP(method, path, form, db)

Next == Add \/ Listen \/ Serve

Spec == Init /\ [][Next]_vars

\* the program as main starts it: the four routes of main, in main's order
InitMain == Init /\ script = MainRoutes

ServeMain ==
  \E method \in Methods, path \in Paths, form \in MainForms, db \in DbModes :
    ServeHTTP(method, path, form, db)

NextMain == Add \/ Listen \/ ServeMain

SpecMain == InitMain /\ [][NextMain]_vars

(***************************************************************************)
(* Concurrent service: net/http runs ServeHTTP for each connection in its  *)
(* own goroutine.  The controllers are shared; the write of c.params       *)
(* (SetParams) and its read (Run) are separate steps of a dispatch.        *)
(***************************************************************************)
\* ServeHTTP up to and including SetParams
Begin(w, method, path) ==
  /\ listening /\ alive
  /\ conn[w].pc = "idle"
  /\ \E cn \in {Matched(method, path)} :
       /\ conn' = [conn EXCEPT ![w] = cn]
       /\ params' = SetParams(params, cn.setp)
  /\ UNCHANGED <<script, routes, listening, alive, store, edit, last>>

\* the rest of ServeHTTP: route.controller.Run, or the 404
Finish(w, form, db) ==
  /\ alive
  /\ conn[w].pc = "run"
  /\ \E d \in {Completed(conn[w], form, params, store, db)} :
       /\ Len(d.store) <= MaxEntries
       /\ store' = d.store
       /\ alive' = (d.outcome # "fatal")
       /\ last' = Record(d)
  /\ conn' = [conn EXCEPT ![w] = Idle]
  /\ UNCHANGED <<script, routes, listening, params, edit>>

\* the concurrent requests are GET requests, which carry no form
GetForm == [title |-> <<>>, date |-> <<>>, content |-> <<>>]
BeginGet == \E w \in Workers, path \in Paths : Begin(w, "GET", path)
FinishGet == \E w \in Workers : Finish(w, GetForm, "ok")

InitRace == Init /\ script = MainRoutes
NextRace == Add \/ Listen \/ BeginGet \/ FinishGet
SpecRace == InitRace /\ [][NextRace]_vars

(***************************************************************************)
(* The Edit controller (controller Edit of package web).  A request names  *)
(* the entry by its slug, the path parameter handed to the controller.     *)
(***************************************************************************)
EditSlugs == {SlugMemo[t] : t \in Titles} \cup {<<"1">>}
EditMethods == {"GET", "POST"}

\* the text of the not-found page and the marker of the error banner
PageNotFound ==
  <<"P", "a", "g", "e", " ", "N", "o", "t", " ", "F", "o", "u", "n", "d">>
ErrorBanner ==
  <<"<", "d", "i", "v", " ", "c", "l", "a", "s", "s", "=", "\"", "e", "r",
    "r", "o", "r", "\"", ">">>
EditSuffix == <<"/", "e", "d", "i", "t">>
ErrorQuery == <<"?", "e", "r", "r", "o", "r", "=", "1">>
SavedUrl == <<"/", "?", "s", "a", "v", "e", "d", "=", "1">>

\* the load by slug: the index of the first row with the slug, 0 when the
\* cursor yields no row or the query fails
EditLoad(st, slug, dberr) ==
  LET hits == {i \in 1..Len(st) : st[i].slug = slug}
  IN IF dberr \/ hits = {} THEN 0
     ELSE CHOOSE i \in hits : \A j \in hits : i <= j

\* mutant: the update also derives the slug anew from the submitted title
EditUpdateReslug(st, slug, form) ==
  [i \in 1..Len(st) |->
     IF st[i].slug = slug
     THEN [st[i] EXCEPT !.slug = SlugMemo[form.title], !.title = form.title,
                        !.date = form.date, !.content = form.content]
     ELSE st[i]]

\* the update statement: title, date, content of the rows with the slug
EditUpdate(st, slug, form) ==
  [i \in 1..Len(st) |->
     IF st[i].slug = slug
     THEN [st[i] EXCEPT !.title = form.title, !.date = form.date,
                        !.content = form.content]
     ELSE st[i]]

\* mutant: the missing entry is answered as an empty page with status 200
EditMissingOk == [NoResp EXCEPT !.status = 200]

\* the answer for a missing entry: 404 and the not-found page
EditMissing == [NoResp EXCEPT !.status = 404, !.body = PageNotFound]

\* the query string of a request with the error parameter
ErrorParam == <<"e", "r", "r", "o", "r", "=", "1">>

EditRecord(method, slug, errorq, form, idx, resp, execs) ==
  [kind |-> "edit", method |-> method, path |-> <<"/">> \o slug \o EditSuffix,
   query |-> IF errorq THEN ErrorParam ELSE Nil,
   form |-> IF \E k \in DOMAIN execs : execs[k] = "parse" THEN form ELSE NoForm,
   idx |-> idx, regex |-> FALSE, ran |-> <<"edit">>, setp |-> <<>>,
   resp |-> resp, logs |-> <<>>, execs |-> execs, outcome |-> "ok"]

\* mutant: the flag, once set, stays set
EditErrorSticky(old, errorq) == old \/ errorq

\* the Error flag a GET leaves: set from the error query parameter
EditErrorFlag(old, errorq) == errorq

\* mutant: a submission is rejected when any of the three fields is empty
EditInvalidAny(form) == form.title = <<>> \/ form.date = <<>> \/ form.content = <<>>

\* the submission is invalid when title, date and content are all empty
EditInvalid(form) == form.title = <<>> /\ form.date = <<>> /\ form.content = <<>>

\* Edit.Run for one request
EditRun(method, slug, errorq, form, dberr) ==
  /\ alive
  /\ \A w \in Workers : conn[w].pc = "idle"
  /\ \E idx \in {EditLoad(store, slug, dberr)} :
       IF idx = 0 THEN
         /\ last' = EditRecord(method, slug, errorq, form, 0, EditMissing, <<"query">>)
         /\ UNCHANGED <<store, edit>>
       ELSE IF method = "GET" THEN
         /\ edit' = [edit EXCEPT !.Error = EditErrorFlag(edit.Error, errorq)]
         /\ last' = EditRecord(method, slug, errorq, form, idx,
                       [Render("edit", <<store[idx].slug, store[idx].title,
                                         store[idx].date, store[idx].content>>)
                          EXCEPT !.body = IF edit'.Error THEN ErrorBanner ELSE Nil],
                       <<"query">>)
         /\ UNCHANGED store
       ELSE IF EditInvalid(form) THEN
         /\ last' = EditRecord(method, slug, errorq, form, idx,
                       Redirect(<<"/">> \o store[idx].slug \o EditSuffix
                                \o ErrorQuery, 302),
                       <<"query", "parse">>)
         /\ UNCHANGED <<store, edit>>
       ELSE
         /\ store' = EditUpdate(store, store[idx].slug, form)
         /\ last' = EditRecord(method, slug, errorq, form, idx, Redirect(SavedUrl, 302),
                       <<"query", "parse", "update">>)
         /\ UNCHANGED edit
  /\ UNCHANGED <<script, routes, listening, alive, params, conn>>

EditServe ==
  \E method \in EditMethods, slug \in EditSlugs, errorq \in BOOLEAN,
     form \in Forms, dberr \in BOOLEAN :
    EditRun(method, slug, errorq, form, dberr)

\* entries are created through POST /new
ServeNew == \E form \in Forms : ServeHTTP("POST", NewPath, form, "ok")

InitEdit == Init /\ script = MainRoutes
NextEdit == Add \/ Listen \/ ServeNew \/ EditServe
SpecEdit == InitEdit /\ [][NextEdit]_vars

(***************************************************************************)
(* Properties.  A property speaks of the routes and the request in its own *)
(* terms, not through the operators of the router above.                   *)
(***************************************************************************)
MinOf(S) == CHOOSE x \in S : \A y \in S : x <= y

\* the request method is the route's, or is empty while the route's is GET
Compatible(rt, method) == method = rt.method \/ (method = "" /\ rt.method = "GET")

\* the path satisfies the route's regular expression under search
Satisfies(rt, path) ==
  Compile(rt.uri).ok /\ \E b \in 1..(Len(path) + 1) : Ends(Compile(rt.uri).nodes, path, b) # <<>>

\* the test ServeHTTP applies to a route: the literal comparison, or for a
\* pattern route the search, each with a compatible method
Tests(rt, method, path) ==
  Compatible(rt, method) /\ (path = rt.uri \/ (rt.matchable /\ Satisfies(rt, path)))

\* the routes, by index, whose test the last request passes
Passing == {i \in 1..Len(routes) : Tests(routes[i], last.method, last.path)}

\* C1: a dispatch runs the controller of the first route, in registration
\* order, whose test the request passes, once, and no other controller; when
\* no route passes it runs none.
Theorem_C1 ==
  last.kind = "mux" =>
    IF Passing = {} THEN last.ran = <<>>
    ELSE last.ran = <<routes[MinOf(Passing)].controller>>

\* C1 witness: two routes with different controllers pass and the earlier ran
Witness_C1 ==
  /\ last.kind = "mux"
  /\ \E i \in Passing, j \in Passing :
       /\ i < j
       /\ routes[i].controller # routes[j].controller
       /\ last.ran = <<routes[i].controller>>

\* C2 as stated: when no route matches, the answer is 404 with a body that
\* contains "Page Not Found", and the not-found line is logged.
Original_C2 ==
  (last.kind = "mux" /\ Passing = {}) =>
    /\ last.resp.status = 404
    /\ Contains(last.resp.body,
                <<"P", "a", "g", "e", " ", "N", "o", "t", " ", "F", "o", "u", "n", "d">>)
    /\ \E k \in DOMAIN last.logs : last.logs[k].line = "404 Not Found"

\* C2 amended: when no route matches, the answer is 404 with the body
\* "404 page not found\n" (lower case), no controller runs, and the
\* not-found line is logged with the request's method and path.
Theorem_C2 ==
  (last.kind = "mux" /\ Passing = {}) =>
    /\ last.resp.status = 404
    /\ last.resp.body = <<"4", "0", "4", " ", "p", "a", "g", "e", " ", "n", "o", "t",
                          " ", "f", "o", "u", "n", "d", "\n">>
    /\ last.ran = <<>>
    /\ \E k \in DOMAIN last.logs :
         last.logs[k] = [line |-> "404 Not Found", method |-> last.method,
                         path |-> last.path]

\* C2 witness: the right path with an incompatible method was answered 404
Witness_C2 ==
  /\ last.kind = "mux" /\ Passing = {}
  /\ \E i \in 1..Len(routes) : routes[i].uri = last.path
  /\ last.resp.status = 404

\* C3: a request whose path equals the pattern of a non-pattern route, with
\* a compatible method, and that no other registered route matches, runs
\* exactly that route's controller, wherever the route was registered.
Theorem_C3 ==
  last.kind = "mux" =>
    \A i \in 1..Len(routes) :
      ( /\ ~routes[i].matchable
        /\ last.path = routes[i].uri
        /\ Compatible(routes[i], last.method)
        /\ Passing = {i} )
      => last.ran = <<routes[i].controller>>

\* C3 witness: such a route, not registered where main registers it, served
\* a request of empty method
Witness_C3 ==
  /\ last.kind = "mux" /\ last.method = ""
  /\ script # MainRoutes
  /\ \E i \in 2..Len(routes) :
       /\ ~routes[i].matchable /\ last.path = routes[i].uri /\ Passing = {i}
       /\ last.ran = <<routes[i].controller>>

\* C4 as stated: when a dispatch runs the controller of a pattern route, it
\* has called SetParams with all matches of the pattern in the path, and
\* the controller holds those params, not an earlier request's.
Original_C4 ==
  (last.kind = "mux" /\ last.idx # 0 /\ routes[last.idx].matchable) =>
    LET c == routes[last.idx].controller
        all == IF Compile(routes[last.idx].uri).ok
               THEN FindAllString(Compile(routes[last.idx].uri).nodes, last.path)
               ELSE Nil
    IN params[c] = all

\* the match predicate by the matchable flag: equal path for a non-pattern
\* route, the expression satisfied for a pattern route
StatedTest(rt, method, path) ==
  Compatible(rt, method)
  /\ (IF rt.matchable THEN Satisfies(rt, path) ELSE path = rt.uri)

\* C5 as stated: the route a dispatch chooses passes the test of its kind
\* (a non-pattern route: equal path; a pattern route: the path satisfies
\* the expression), and the routes it passed over do not.
Original_C5 ==
  last.kind = "mux" =>
    \A i \in 1..Len(routes) :
      /\ (i = last.idx => StatedTest(routes[i], last.method, last.path))
      /\ ((last.idx = 0 \/ i < last.idx)
            => ~StatedTest(routes[i], last.method, last.path))

\* C6 as stated: a request of empty method handled by the New controller
\* is handled like a GET (the form is rendered, nothing is inserted); only
\* a POST inserts.
Original_C6 ==
  (last.kind = "mux" /\ last.ran # <<>> /\ Kind(last.ran[1]) = "New") =>
    /\ (last.method # "POST" => last.resp.page = "new" /\ last.execs = <<>>)
    /\ (last.execs # <<>> => last.method = "POST")

\* C7 as stated: under concurrent dispatch, the View controller chosen by
\* its pattern renders the params extracted from its own request's path.
Original_C7 ==
  (last.kind = "mux" /\ last.regex /\ last.resp.page = "view") =>
    last.resp.data = FindAllString(Compile(routes[last.idx].uri).nodes, last.path)

\* C8 as stated: every POST handled by the New controller ends with the
\* 302 redirect to "/", whether the store succeeds or fails.
Original_C8 ==
  (last.kind = "mux" /\ last.method = "POST" /\ last.ran # <<>>
     /\ Kind(last.ran[1]) = "New") =>
    /\ last.resp.status = 302
    /\ last.resp.location = <<"/">>

\* C9 as stated: a malformed expression in a pattern route is fatal at
\* registration or at its first match attempt; no dispatch passes over
\* such a route as one that does not match.
Original_C9 ==
  last.kind = "mux" =>
    \A i \in 1..Len(routes) :
      (routes[i].matchable /\ ~Compile(routes[i].uri).ok
         /\ (last.idx = 0 \/ i < last.idx))
      => last.outcome = "fatal"

\* C10: when the load by slug yields no row, Edit.Run answers 404 with a
\* body containing "Page Not Found" and does nothing else: no form
\* parsing, no update, no redirect, the table and the Error flag unchanged;
\* for GET and for POST.
Theorem_C10 ==
  [][ (last'.kind = "edit" /\ last'.idx = 0) =>
        /\ last'.resp.status = 404
        /\ Contains(last'.resp.body,
             <<"P", "a", "g", "e", " ", "N", "o", "t", " ", "F", "o", "u", "n", "d">>)
        /\ last'.resp.location = <<>>
        /\ last'.execs = <<"query">>
        /\ store' = store
        /\ edit' = edit ]_vars

\* C10 witness: a POST for a slug no row has, the table holding other rows
Witness_C10 ==
  /\ last.kind = "edit" /\ last.method = "POST" /\ last.idx = 0
  /\ store # <<>>
  /\ \A i \in 1..Len(store) : <<"/">> \o store[i].slug \o EditSuffix # last.path
  /\ last.resp.status = 404

\* a POST handled by Edit for an entry the load found
EditPost(d) == d.kind = "edit" /\ d.method = "POST" /\ d.idx # 0

\* title, date and content as submitted are all three empty
AllEmpty(f) == f.title = <<>> /\ f.date = <<>> /\ f.content = <<>>

\* the slug an edit path /<slug>/edit names
SlugOfEditPath(path) == SubSeq(path, 2, Len(path) - 5)

\* "/" slug "/edit?error=1" for the request's own edit path
ErrorLocation(d) == d.path \o <<"?", "e", "r", "r", "o", "r", "=", "1">>

\* C11: a POST for an existing entry is rejected exactly when title, date
\* and content are all three empty; a rejected POST answers 302 with
\* Location equal to the same edit path followed by "?error=1" and executes
\* no update: the table is unchanged.
Theorem_C11 ==
  [][ EditPost(last') =>
        /\ AllEmpty(last'.form) <=> (last'.resp.location = ErrorLocation(last'))
        /\ AllEmpty(last'.form) =>
             /\ last'.resp.status = 302
             /\ last'.execs = <<"query", "parse">>
             /\ store' = store ]_vars

\* C11 witness: an all-empty POST for an existing entry was redirected to
\* its edit path with error=1
Witness_C11 ==
  /\ EditPost(last) /\ AllEmpty(last.form)
  /\ last.resp.status = 302
  /\ last.resp.location = ErrorLocation(last)
  /\ \E i \in 1..Len(store) : store[i].slug = SlugOfEditPath(last.path)

Original_C14 == \A i \in 1..Len(store) : store[i].slug # <<>>

\* the characters a URL-safe slug may hold
UrlSafeChars == {"a", "e", "n", "w", "1", "_", "-"}

RECURSIVE CollapseFrom(_, _)
\* the title from position i on, lower-cased, a "-" for the first character
\* of every run of non-word characters and nothing for the rest of the run
CollapseFrom(t, i) ==
  IF i > Len(t) THEN <<>>
  ELSE IF t[i] \in UrlSafeChars \cup Upper THEN <<ToLowerChar(t[i])>> \o CollapseFrom(t, i + 1)
  ELSE IF i > 1 /\ t[i - 1] \notin UrlSafeChars \cup Upper THEN CollapseFrom(t, i + 1)
  ELSE <<"-">> \o CollapseFrom(t, i + 1)

\* C15: the slug stored for a title is the title lower-cased with every
\* maximal run of non-word characters collapsed to a single "-" (a run of
\* two or more yields one "-"), and holds only lower-case letters, digits,
\* "_" and "-".
Original_C15 ==
  \A i \in 1..Len(store) :
    /\ store[i].slug = CollapseFrom(store[i].title, 1)
    /\ \A k \in 1..Len(store[i].slug) : store[i].slug[k] \in UrlSafeChars

\* the dispatch was an Edit POST answered with the redirect to /?saved=1
SavedEdit(d) ==
  /\ EditPost(d)
  /\ d.resp.status = 302
  /\ d.resp.location = <<"/", "?", "s", "a", "v", "e", "d", "=", "1">>

\* C16: no step removes an entry; every persisted entry is still persisted
\* after the step, under the same id and with the same slug; and its title,
\* date or content differ after the step only if the step is an Edit POST
\* that succeeded.
Theorem_C16 ==
  [][ /\ Len(store') >= Len(store)
      /\ \A i \in 1..Len(store) :
           \E j \in 1..Len(store') :
             /\ store'[j].id = store[i].id
             /\ store'[j].slug = store[i].slug
             /\ \A k \in 1..Len(store') : store'[k].id = store[i].id => k = j
             /\ store'[j] # store[i] => SavedEdit(last') ]_vars

\* C16 witness: two entries are persisted, the older one overwritten by an
\* Edit POST after the newer one was created
Witness_C16 ==
  /\ Len(store) = 2
  /\ SavedEdit(last)
  /\ store[1].slug = SlugOfEditPath(last.path)
  /\ store[1].title = last.form.title
  /\ store[1].slug # slugify(store[1].title)
  /\ store[2].slug # store[1].slug

\* C17: a dispatch leaves the route list unchanged, for a matched and for
\* an unmatched request alike, and when the route list changes, it has got
\* one new route at its end, after the earlier routes in their order.
Theorem_C17 ==
  [][ /\ listening => routes' = routes
      /\ (last' # last \/ params' # params \/ store' # store) => routes' = routes
      /\ routes' # routes =>
           /\ Len(routes') = Len(routes) + 1
           /\ \A i \in 1..Len(routes) : routes'[i] = routes[i] ]_vars

\* C17 witness: the routes are those registered, in registration order,
\* after a request was dispatched to the fourth of them
Witness_C17 ==
  /\ listening
  /\ Len(routes) = 4
  /\ \A i \in 1..4 : routes[i] = script[i]
  /\ last.kind = "mux" /\ last.idx = 4

\* C18: with main's routes, a dispatch that changes the table is of a
\* request whose path is exactly "/new"; a request of any other path, of
\* any method and form, leaves the table as it was.
Theorem_C18 ==
  [][ store' # store =>
        /\ last'.kind = "mux"
        /\ last'.path = <<"/", "n", "e", "w">> ]_vars

\* C18 witness: with an entry persisted, a POST of another path was
\* dispatched and the entry is still the only one
Witness_C18 ==
  /\ Len(store) = 1
  /\ last.kind = "mux"
  /\ last.method = "POST"
  /\ last.path = <<"/", "n", "-", "w">>
  /\ last.execs = <<>>

\* C19: with main's routes, a GET of "/" followed by the slug of a persisted
\* entry is dispatched to View, whose parameters start with that path.
Original_C19 ==
  (/\ last.kind = "mux"
   /\ last.method = "GET"
   /\ \E i \in 1..Len(store) : last.path = <<"/">> \o store[i].slug) =>
    /\ last.ran = <<"view">>
    /\ last.resp.page = "view"
    /\ last.resp.data # <<>>
    /\ last.resp.data[1] = last.path
====
